---- MODULE Spec2Model ----
(***************************************************************************)
(* Model of the chat client's conversation store (ChatProvider in          *)
(* context/ChatContext, src/unnamed/part_000 lines 309-524) and of the     *)
(* chat screen's streaming send (handleSend in src/[id].tsx).              *)
(*                                                                         *)
(* Conventions.                                                            *)
(*  - A React state setter called with an updater (setConversations(prev   *)
(*    => ...)) is applied at the call, on the current state; the effect    *)
(*    that copies `conversations` into conversationsRef (lines 360-362)    *)
(*    runs with the commit of the state change that triggers it.           *)
(*  - Suspension points are the awaits on AsyncStorage, fetch and          *)
(*    reader.read(), and handleSend's awaits on the provider's async       *)
(*    calls; every other handler runs to completion in one step.           *)
(*  - AsyncStorage.setItem calls are served in the order they were issued. *)
(*  - handleSubmit of the auth screen (src/index.tsx:37-52) is two steps:  *)
(*    up to its await, and the login or signup call of the AuthProvider    *)
(*    (context/AuthContext, src/+not-found.tsx lines 43-170) with what     *)
(*    follows it. The screen disables its submit button while a call runs  *)
(*    (src/index.tsx:118), so calls do not overlap. What AsyncStorage does *)
(*    to each read and write of a call is an input of the second step.     *)
(*  - Date.now() is the variable `now`; Math.random() is a value drawn     *)
(*    from RandSet.                                                        *)
(***************************************************************************)
EXTENDS Integers, Sequences, FiniteSets, TLC

\* ------------------------------------------------------------- bounds
MaxNow == 2
MaxConvs == 1
MaxMsgs == 1
MaxLoads == 2
MaxWrites == 1
MaxChunk == 40

\* ------------------------------------------------------------- state
VARIABLES
    user,              \* useAuth().user as ChatProvider last rendered it
    storageKeyRef,     \* storageKeyRef.current
    conversations,     \* useState<Conversation[]>
    conversationsRef,  \* conversationsRef.current
    isLoading,         \* useState(true)
    saveTimerRef,      \* saveTimerRef.current: a timer handle, or NoTimer
    timers,            \* handles of the setTimeout callbacks still pending
    loads,             \* loadConversations calls awaiting AsyncStorage.getItem
    writes,            \* AsyncStorage.setItem calls issued and not yet settled
    store,             \* AsyncStorage: key -> stored item
    flush,             \* promise of the latest persistNow call, as its caller sees it:
                       \* "pending", resolved after a write ("ok") or after a logged
                       \* failure ("logged"), "rejected"; "none" when there is none
    now,               \* Date.now()
    msgCounter,        \* module-level msgCounter
    messages,          \* ChatScreen: useState<Message[]>
    isStreaming,       \* ChatScreen: useState(false)
    showTyping,        \* ChatScreen: useState(false)
    hs,                \* the running handleSend call: its position and locals
    hs2,               \* locals of a handleSend invoked while the first awaits addMessage
    body,              \* the response of the chat endpoint being read
    observed,          \* contents the view has shown for the assistant message
    seenLines,         \* complete lines the framing loop has handed on
    directory,         \* AsyncStorage item under USERS_KEY
    session,           \* AsyncStorage item under CURRENT_USER_KEY
    authUser,          \* AuthProvider: useState<User | null>
    authCall,          \* the login or signup call handleSubmit is awaiting
    authResult,        \* what the latest login or signup call gave its caller
    screenError        \* AuthScreen: useState('') error

providerVars == <<user, storageKeyRef, conversations, conversationsRef, isLoading,
                  saveTimerRef, timers, loads, writes, store, flush, now>>

storeVars == <<user, storageKeyRef, conversations, conversationsRef, isLoading,
               saveTimerRef, timers, loads, writes, store, flush, now, msgCounter>>

sendVars == <<messages, isStreaming, showTyping, hs, hs2, body, observed, seenLines>>

authVars == <<directory, session, authUser, authCall, authResult, screenError>>

vars == <<storeVars, sendVars, authVars>>

\* ------------------------------------------------------------- values
NoUser == "none"
Users == {"A", "B"}
NoKey == "null"
NoTimer == 0
RandSet == {1, 2}
Roles == {"user", "assistant"}
DefaultTitle == "New Chat"
Titles == {"", "Trip"}
Contents == {"m"}
Replacements == {"n"}
Undefined == [undefined |-> TRUE]

StorageKey(u) == IF u = NoUser THEN NoKey ELSE "nexus_chats_" \o u

Keys == {StorageKey(u) : u \in Users}

MinOf(S) == CHOOSE n \in S : \A m \in S : n <= m

\* setTimeout's return value: a handle no pending timer carries
NewTimerHandle(pending) ==
    MinOf({h \in 1..(Cardinality(pending) + 1) : h \notin pending})

\* Date.now().toString() + Math.random().toString(36).substr(2, 9)
ConversationId(t, r) == <<t, r>>

UnknownId == ConversationId(0, 0)

\* an id made of the timestamp and the random part alone
MessageIdNoCounter(t, n, r) == <<"msg", t, 0, r>>

\* `msg-${Date.now()}-${msgCounter}-${Math.random()...}`
MessageId(t, n, r) == <<"msg", t, n, r>>

\* ------------------------------------------------------------- JSON
JsonOfMessage(m) == <<m.id, m.role, m.content, m.timestamp>>

JsonOfConversation(c) ==
    <<c.id, c.title, [i \in DOMAIN c.messages |-> JsonOfMessage(c.messages[i])],
      c.createdAt, c.updatedAt>>

\* JSON.stringify(conversationsRef.current)
Stringify(cs) ==
    [kind |-> "text", json |-> [i \in DOMAIN cs |-> JsonOfConversation(cs[i])]]

MessageOfJson(j) == [id |-> j[1], role |-> j[2], content |-> j[3], timestamp |-> j[4]]

\* a parse that loses the message lists
ConversationOfJsonNoMessages(j) ==
    [id |-> j[1], title |-> j[2], messages |-> <<>>, createdAt |-> j[4],
     updatedAt |-> j[5]]

ConversationOfJson(j) ==
    [id |-> j[1], title |-> j[2],
     messages |-> [i \in DOMAIN j[3] |-> MessageOfJson(j[3][i])],
     createdAt |-> j[4], updatedAt |-> j[5]]

\* JSON.parse(stored), for an item this program wrote
ParseStored(item) == [i \in DOMAIN item.json |-> ConversationOfJson(item.json[i])]

Absent == [kind |-> "absent", json |-> <<>>]
Corrupt == [kind |-> "corrupt", json |-> <<>>]

\* a conversation persisted by an earlier session of user u
SeedConversation(u) ==
    [id |-> ConversationId(0, IF u = "A" THEN 1 ELSE 2), title |-> DefaultTitle, messages |-> <<>>,
     createdAt |-> 0, updatedAt |-> 0]

SeedItems(u) == {Absent, Stringify(<<>>), Stringify(<<SeedConversation(u)>>)}

\* ------------------------------------------------------------- provider
\* the effect of lines 360-362, run on the commit that changes `conversations`
SyncRef(cs) == cs

\* cs.find(c => c.id === id)
Find(cs, id) ==
    LET hits == {i \in DOMAIN cs : cs[i].id = id}
    IN  IF hits = {} THEN Undefined ELSE cs[MinOf(hits)]

GetConversation(id) == Find(conversationsRef, id)

KnownIds == {conversations[i].id : i \in DOMAIN conversations}

\* scheduleSave(): clear the timer saveTimerRef names, start a new one
\* scheduleSave without the clearTimeout of the timer it replaces
ScheduleSaveKeeping ==
    LET h == NewTimerHandle(timers)
    IN  /\ timers' = timers \cup {h}
        /\ saveTimerRef' = h

ScheduleSave ==
    LET pending == timers \ {saveTimerRef}
        h == NewTimerHandle(pending)
    IN  /\ timers' = pending \cup {h}
        /\ saveTimerRef' = h

NewConversation(id, title, t) ==
    [id |-> id, title |-> IF title = "" THEN DefaultTitle ELSE title,
     messages |-> <<>>, createdAt |-> t, updatedAt |-> t]

\* [...prev, newConv]
PrependedLast(c, prev) == Append(prev, c)

Prepended(c, prev) == <<c>> \o prev

\* prev.filter(c => c.id === id) in place of !==
FilteredInverted(prev, id) == SelectSeq(prev, LAMBDA c : c.id = id)

Filtered(prev, id) == SelectSeq(prev, LAMBDA c : c.id # id)

\* addMessage putting the message first: [message, ...c.messages]
WithMessageFirst(prev, cid, m, t) ==
    [i \in DOMAIN prev |->
        IF prev[i].id = cid
        THEN [prev[i] EXCEPT !.messages = <<m>> \o @, !.updatedAt = t]
        ELSE prev[i]]

\* the map of addMessage without its test of c.id
WithMessageAny(prev, cid, m, t) ==
    [i \in DOMAIN prev |->
        [prev[i] EXCEPT !.messages = Append(@, m), !.updatedAt = t]]

WithMessage(prev, cid, m, t) ==
    [i \in DOMAIN prev |->
        IF prev[i].id = cid
        THEN [prev[i] EXCEPT !.messages = Append(@, m), !.updatedAt = t]
        ELSE prev[i]]

WithLastContent(prev, cid, content, t) ==
    [i \in DOMAIN prev |->
        IF prev[i].id = cid /\ Len(prev[i].messages) > 0
        THEN [prev[i] EXCEPT !.messages[Len(prev[i].messages)].content = content,
                             !.updatedAt = t]
        ELSE prev[i]]

WithTitle(prev, cid, title) ==
    [i \in DOMAIN prev |->
        IF prev[i].id = cid THEN [prev[i] EXCEPT !.title = title] ELSE prev[i]]

\* an updater that leaves conversationsRef.current alone
SetConversationsStateOnly(updated) ==
    /\ conversations' = updated
    /\ conversationsRef' = conversationsRef

\* setConversations(prev => { ...; conversationsRef.current = updated; return updated })
SetConversations(updated) ==
    /\ conversations' = updated
    /\ conversationsRef' = updated

Touch == flush' = "none"

createConversation(title, r) ==
    /\ SetConversations(Prepended(NewConversation(ConversationId(now, r), title, now),
                                  conversations))
    /\ ScheduleSave
    /\ Touch
    /\ UNCHANGED <<user, storageKeyRef, isLoading, loads, writes, store, now, msgCounter>>

deleteConversation(id) ==
    /\ SetConversations(Filtered(conversations, id))
    /\ ScheduleSave
    /\ Touch
    /\ UNCHANGED <<user, storageKeyRef, isLoading, loads, writes, store, now, msgCounter>>

\* the provider's part of addMessage; the caller supplies the message
addMessage(cid, m) ==
    /\ SetConversations(WithMessage(conversations, cid, m, now))
    /\ ScheduleSave
    /\ Touch
    /\ UNCHANGED <<user, storageKeyRef, isLoading, loads, writes, store, now>>

\* updateLastMessage with the scheduleSave() the other mutations end with
updateLastMessageSaving(cid, content) ==
    /\ SetConversations(WithLastContent(conversations, cid, content, now))
    /\ ScheduleSave
    /\ Touch
    /\ UNCHANGED <<user, storageKeyRef, isLoading, loads, writes, store, now, msgCounter>>

updateLastMessage(cid, content) ==
    /\ SetConversations(WithLastContent(conversations, cid, content, now))
    /\ Touch
    /\ UNCHANGED <<user, storageKeyRef, isLoading, saveTimerRef, timers, loads, writes,
                   store, now, msgCounter>>

updateConversationTitle(cid, title) ==
    /\ SetConversations(WithTitle(conversations, cid, title))
    /\ ScheduleSave
    /\ Touch
    /\ UNCHANGED <<user, storageKeyRef, isLoading, loads, writes, store, now, msgCounter>>

\* the setTimeout callback returning before its setItem
TimerFireWithoutWrite(h) ==
    /\ h \in timers
    /\ timers' = timers \ {h}
    /\ UNCHANGED <<user, storageKeyRef, conversations, conversationsRef, isLoading,
                   saveTimerRef, writes, loads, store, flush, now, msgCounter>>

\* the setTimeout callback of scheduleSave, 500 ms after it was armed
TimerFire(h) ==
    /\ h \in timers
    /\ timers' = timers \ {h}
    /\ IF storageKeyRef = NoKey
       THEN UNCHANGED writes
       ELSE /\ Len(writes) < MaxWrites
            /\ writes' = Append(writes, [key |-> storageKeyRef,
                                         value |-> Stringify(conversationsRef),
                                         by |-> "timer"])
    /\ UNCHANGED <<user, storageKeyRef, conversations, conversationsRef, isLoading,
                   saveTimerRef, loads, store, flush, now, msgCounter>>

\* persistNow without its clearTimeout
persistNowKeepingTimer ==
    IF storageKeyRef = NoKey
    THEN UNCHANGED storeVars
    ELSE /\ Len(writes) < MaxWrites
         /\ writes' = Append(writes, [key |-> storageKeyRef,
                                      value |-> Stringify(conversationsRef),
                                      by |-> "persistNow"])
         /\ flush' = "pending"
         /\ UNCHANGED <<user, storageKeyRef, conversations, conversationsRef, isLoading,
                        saveTimerRef, timers, loads, store, now, msgCounter>>

persistNow ==
    IF storageKeyRef = NoKey
    THEN UNCHANGED storeVars
    ELSE /\ Len(writes) < MaxWrites
         /\ timers' = timers \ {saveTimerRef}
         /\ writes' = Append(writes, [key |-> storageKeyRef,
                                      value |-> Stringify(conversationsRef),
                                      by |-> "persistNow"])
         /\ flush' = "pending"
         /\ UNCHANGED <<user, storageKeyRef, conversations, conversationsRef, isLoading,
                        saveTimerRef, loads, store, now, msgCounter>>

\* the settling of a setItem whose rejection no catch block takes
SetItemSettleUncaught(ok) ==
    /\ writes # <<>>
    /\ LET w == Head(writes)
           latest == w.by = "persistNow"
                     /\ \A i \in 2..Len(writes) : writes[i].by # "persistNow"
       IN  /\ store' = IF ok THEN [store EXCEPT ![w.key] = w.value] ELSE store
           /\ flush' = IF flush = "pending" /\ latest
                       THEN (IF ok THEN "ok" ELSE "rejected")
                       ELSE flush
    /\ writes' = Tail(writes)
    /\ UNCHANGED <<user, storageKeyRef, conversations, conversationsRef, isLoading,
                   saveTimerRef, timers, loads, now, msgCounter>>

\* AsyncStorage settles the oldest setItem: it stores the value, or rejects
\* (both callers catch the rejection and log it, and their promise resolves)
SetItemSettle(ok) ==
    /\ writes # <<>>
    /\ LET w == Head(writes)
           latest == w.by = "persistNow"
                     /\ \A i \in 2..Len(writes) : writes[i].by # "persistNow"
       IN  /\ store' = IF ok THEN [store EXCEPT ![w.key] = w.value] ELSE store
           /\ flush' = IF flush = "pending" /\ latest
                       THEN (IF ok THEN "ok" ELSE "logged")
                       ELSE flush
    /\ writes' = Tail(writes)
    /\ UNCHANGED <<user, storageKeyRef, conversations, conversationsRef, isLoading,
                   saveTimerRef, timers, loads, now, msgCounter>>

\* loadConversations(key) up to its await
loadConversations(key) ==
    /\ isLoading' = TRUE
    /\ loads' = Append(loads, [key |-> key])

\* the render with another user, the effect having no cleanup
UserChangedNoCleanup(u) ==
    /\ u # user
    /\ user' = u
    /\ storageKeyRef' = StorageKey(u)
    /\ timers' = timers
    /\ IF StorageKey(u) # NoKey
       THEN /\ Len(loads) < MaxLoads
            /\ loadConversations(StorageKey(u))
            /\ UNCHANGED <<conversations, conversationsRef>>
       ELSE /\ conversations' = <<>>
            /\ conversationsRef' = SyncRef(<<>>)
            /\ isLoading' = FALSE
            /\ UNCHANGED loads
    /\ Touch
    /\ UNCHANGED <<saveTimerRef, writes, store, now, msgCounter>>

\* ChatProvider renders with another user: line 358, then the storageKey effect
\* (cleanup of the previous run first)
UserChanged(u) ==
    /\ u # user
    /\ user' = u
    /\ storageKeyRef' = StorageKey(u)
    /\ timers' = timers \ {saveTimerRef}
    /\ IF StorageKey(u) # NoKey
       THEN /\ Len(loads) < MaxLoads
            /\ loadConversations(StorageKey(u))
            /\ UNCHANGED <<conversations, conversationsRef>>
       ELSE /\ conversations' = <<>>
            /\ conversationsRef' = SyncRef(<<>>)
            /\ isLoading' = FALSE
            /\ UNCHANGED loads
    /\ Touch
    /\ UNCHANGED <<saveTimerRef, writes, store, now, msgCounter>>

\* loadConversations after its await, the catch block's setConversations([])
\* not followed by the effect that copies the list into conversationsRef
LoadSettleRefKept(i, ok) ==
    /\ i \in DOMAIN loads
    /\ loads' = [j \in 1..(Len(loads) - 1) |-> IF j < i THEN loads[j] ELSE loads[j + 1]]
    /\ LET stored == store[loads[i].key]
       IN  IF ok /\ stored.kind = "text"
           THEN SetConversations(ParseStored(stored))
           ELSE IF ok /\ stored.kind = "absent"
           THEN SetConversations(<<>>)
           ELSE /\ conversations' = <<>>
                /\ conversationsRef' = conversationsRef
    /\ isLoading' = FALSE
    /\ Touch
    /\ UNCHANGED <<user, storageKeyRef, saveTimerRef, timers, writes, store, now,
                   msgCounter>>

\* loadConversations after its await: getItem resolved (ok) or rejected
LoadSettle(i, ok) ==
    /\ i \in DOMAIN loads
    /\ loads' = [j \in 1..(Len(loads) - 1) |-> IF j < i THEN loads[j] ELSE loads[j + 1]]
    /\ LET stored == store[loads[i].key]
       IN  IF ok /\ stored.kind = "text"
           THEN SetConversations(ParseStored(stored))
           ELSE IF ok /\ stored.kind = "absent"
           THEN SetConversations(<<>>)
           ELSE /\ conversations' = <<>>
                /\ conversationsRef' = SyncRef(<<>>)
    /\ isLoading' = FALSE
    /\ Touch
    /\ UNCHANGED <<user, storageKeyRef, saveTimerRef, timers, writes, store, now,
                   msgCounter>>

Tick ==
    /\ now < MaxNow
    /\ now' = now + 1
    /\ UNCHANGED <<user, storageKeyRef, conversations, conversationsRef, isLoading,
                   saveTimerRef, timers, loads, writes, store, flush, msgCounter>>

\* generateMessageId() and the Message literal a caller builds around it
NewMessage(role, content, r) ==
    [id |-> MessageId(now, msgCounter + 1, r), role |-> role, content |-> content,
     timestamp |-> now]

\* a caller of addMessage other than the chat screen
ClientAddMessage(cid, role, content, r) ==
    /\ msgCounter < MaxMsgs
    /\ msgCounter' = msgCounter + 1
    /\ addMessage(cid, NewMessage(role, content, r))

\* ------------------------------------------------------------- stream text
\* Text on the wire is a sequence of one-character strings.
NL == "\n"

\* 'data: '
DataPrefix ==
    <<"d", "a", "t", "a", ":", " ">>

\* '[DONE]'
DoneSentinel ==
    <<"[", "D", "O", "N", "E", "]">>

\* data: {"content":"Hi"}
LineHi ==
    <<"d", "a", "t", "a", ":", " ", "{", "\"", "c", "o", "n", "t", "e", "n", "t", "\"",
      ":", "\"", "H", "i", "\"", "}">>

\* data: {"content":"Hi there"}
LineHiThere ==
    <<"d", "a", "t", "a", ":", " ", "{", "\"", "c", "o", "n", "t", "e", "n", "t", "\"",
      ":", "\"", "H", "i", " ", "t", "h", "e", "r", "e", "\"", "}">>

\* data: {"content":" there"}
LineThere ==
    <<"d", "a", "t", "a", ":", " ", "{", "\"", "c", "o", "n", "t", "e", "n", "t", "\"",
      ":", "\"", " ", "t", "h", "e", "r", "e", "\"", "}">>

\* data: [DONE]
LineDone ==
    <<"d", "a", "t", "a", ":", " ", "[", "D", "O", "N", "E", "]">>

\* data: {not json
LineMalformed ==
    <<"d", "a", "t", "a", ":", " ", "{", "n", "o", "t", " ", "j", "s", "o", "n">>

\* data: {"error":"boom"}
LineError ==
    <<"d", "a", "t", "a", ":", " ", "{", "\"", "e", "r", "r", "o", "r", "\"", ":", "\"",
      "b", "o", "o", "m", "\"", "}">>

\* data: {"content":""}
LineEmptyContent ==
    <<"d", "a", "t", "a", ":", " ", "{", "\"", "c", "o", "n", "t", "e", "n", "t", "\"",
      ":", "\"", "\"", "}">>

\* data: null
LineNull ==
    <<"d", "a", "t", "a", ":", " ", "n", "u", "l", "l">>

\* : ping  (a line that is no data record)
LinePing ==
    <<":", " ", "p", "i", "n", "g">>

RECURSIVE Str(_)
\* the string a sequence of characters spells
Str(cs) == IF cs = <<>> THEN "" ELSE Head(cs) \o Str(Tail(cs))

RECURSIVE Terminated(_)
\* every line followed by a newline
Terminated(ls) == IF ls = <<>> THEN <<>> ELSE Head(ls) \o <<NL>> \o Terminated(Tail(ls))

\* response bodies the chat endpoint may send
Bodies ==
    { Terminated(<<LineHi, LineHiThere, LineDone>>),
      Terminated(<<LineHi, LineThere, LineDone>>),
      Terminated(<<LineMalformed, LineHi, LineDone>>),
      Terminated(<<LineHi, LineError, LineHiThere>>),
      Terminated(<<LinePing, LineError, LineHi>>),
      Terminated(<<LineEmptyContent, <<>>, LineDone>>),
      Terminated(<<LineHi, LineNull>>),
      Terminated(<<LineHi>>) \o LineHiThere,
      <<>> }

\* line.startsWith(prefix)
StartsWith(line, prefix) ==
    /\ Len(line) >= Len(prefix)
    /\ SubSeq(line, 1, Len(prefix)) = prefix

\* line.slice(n)
SliceFrom(line, n) == SubSeq(line, n + 1, Len(line))

RECURSIVE Split(_)
\* buffer.split('\n')
Split(text) ==
    LET nls == {i \in DOMAIN text : text[i] = NL}
    IN  IF nls = {}
        THEN <<text>>
        ELSE LET i == MinOf(nls)
             IN  <<SubSeq(text, 1, i - 1)>> \o Split(SubSeq(text, i + 1, Len(text)))

\* lines.pop(): the array without its last element
Popped(lines) == SubSeq(lines, 1, Len(lines) - 1)

Last(seq) == seq[Len(seq)]

IsPlain(cs) == \A i \in DOMAIN cs : cs[i] \notin {"\"", "\\"}

\* JSON.parse(data), for the payloads of Bodies: an object with one string
\* member, the literal null, or text that is no JSON (a SyntaxError)
ParseJSON(data) ==
    LET n == Len(data)
        fits(k) == /\ n >= k + 7
                   /\ SubSeq(data, 1, 2) = <<"{", "\"">>
                   /\ SubSeq(data, 3 + k, 5 + k) = <<"\"", ":", "\"">>
                   /\ SubSeq(data, n - 1, n) = <<"\"", "}">>
                   /\ IsPlain(SubSeq(data, 3, 2 + k))
                   /\ IsPlain(SubSeq(data, 6 + k, n - 2))
        ks == {k \in 0..n : fits(k)}
    IN  IF data = <<"n", "u", "l", "l">>
        THEN [kind |-> "null", key |-> "", value |-> ""]
        ELSE IF ks = {}
        THEN [kind |-> "syntaxError", key |-> "", value |-> ""]
        ELSE LET k == MinOf(ks)
             IN  [kind |-> "object", key |-> Str(SubSeq(data, 3, 2 + k)),
                  value |-> Str(SubSeq(data, 6 + k, n - 2))]

\* parsed.content and parsed.error: the member's value, "" for undefined
Member(parsed, name) == IF parsed.key = name THEN parsed.value ELSE ""

\* ------------------------------------------------------------- chat screen
\* the route parameter `id`: the conversation the screen shows
ChatId == ConversationId(0, 1)

FallbackText == "Sorry, something went wrong. Please try again."

Inputs == {<<"h", "i">>, <<" ", "h", "i", " ">>, <<" ">>}

RECURSIVE TrimStart(_)
TrimStart(cs) == IF cs # <<>> /\ Head(cs) = " " THEN TrimStart(Tail(cs)) ELSE cs

RECURSIVE TrimEnd(_)
TrimEnd(cs) == IF cs # <<>> /\ Last(cs) = " " THEN TrimEnd(Popped(cs)) ELSE cs

\* inputText.trim()
Trim(cs) == TrimEnd(TrimStart(cs))

\* text.length > 30 ? text.slice(0, 30) + '...' : text
TitleOf(text) ==
    IF Len(text) > 30 THEN Str(SubSeq(text, 1, 30)) \o "..." ELSE Str(text)

NoBody == [text |-> <<>>, pos |-> 0]

IdleSend ==
    [pc |-> "idle", text |-> <<>>, currentMessages |-> <<>>, newMessages |-> <<>>,
     fullContent |-> "", assistantAdded |-> FALSE, buffer |-> <<>>, error |-> "none",
     outcome |-> "none"]

\* what the statements of the try block read and write
Context ==
    [fullContent |-> hs.fullContent, assistantAdded |-> hs.assistantAdded,
     messages |-> messages, showTyping |-> showTyping, observed |-> observed,
     seenLines |-> seenLines, msgCounter |-> msgCounter, thrown |-> FALSE]

\* fullContent = parsed.content
AccumulatedReplacing(fullContent, content) == content

\* fullContent += parsed.content
Accumulated(fullContent, content) == fullContent \o content

\* a truthy parsed.content, every delta taking the branch of the first one
ApplyDeltaAppending(ctx, content, r) ==
    LET full == Accumulated(ctx.fullContent, content)
    IN  [ctx EXCEPT !.fullContent = full,
                    !.showTyping = FALSE,
                    !.messages = Append(@, [id |-> MessageId(now, ctx.msgCounter + 1, r),
                                            role |-> "assistant", content |-> full,
                                            timestamp |-> now]),
                    !.msgCounter = @ + 1,
                    !.assistantAdded = TRUE,
                    !.observed = Append(@, full)]

\* lines 132-155: a truthy parsed.content
ApplyDelta(ctx, content, r) ==
    LET full == Accumulated(ctx.fullContent, content)
    IN  IF ~ctx.assistantAdded
        THEN [ctx EXCEPT !.fullContent = full,
                         !.showTyping = FALSE,
                         !.messages = Append(@, [id |-> MessageId(now, ctx.msgCounter + 1, r),
                                                 role |-> "assistant", content |-> full,
                                                 timestamp |-> now]),
                         !.msgCounter = @ + 1,
                         !.assistantAdded = TRUE,
                         !.observed = Append(@, full)]
        ELSE [ctx EXCEPT !.fullContent = full,
                         !.messages[Len(ctx.messages)].content = full,
                         !.observed = Append(@, full)]

\* the statements after a JSON.parse that returned, without the throw of
\* lines 156-158
HandleParsedIgnoringError(ctx, parsed, r) ==
    IF parsed.kind = "null"
    THEN [ctx EXCEPT !.thrown = TRUE]
    ELSE IF Member(parsed, "content") # ""
    THEN ApplyDelta(ctx, Member(parsed, "content"), r)
    ELSE ctx

\* lines 132-158: the statements after a JSON.parse that returned
HandleParsed(ctx, parsed, r) ==
    IF parsed.kind = "null"
    THEN [ctx EXCEPT !.thrown = TRUE]
    ELSE LET c == IF Member(parsed, "content") # ""
                  THEN ApplyDelta(ctx, Member(parsed, "content"), r)
                  ELSE ctx
         IN  IF Member(parsed, "error") # "" THEN [c EXCEPT !.thrown = TRUE] ELSE c

\* a catch that rethrows the SyntaxError as well
HandlePayloadRethrowing(ctx, data, r) ==
    IF ParseJSON(data).kind = "syntaxError"
    THEN [ctx EXCEPT !.thrown = TRUE]
    ELSE HandleParsed(ctx, ParseJSON(data), r)

\* lines 130-162: the try/catch around one data payload
HandlePayload(ctx, data, r) ==
    IF ParseJSON(data).kind = "syntaxError"
    THEN ctx
    ELSE HandleParsed(ctx, ParseJSON(data), r)

\* lines 125-163: the body of the for loop, for one complete line
HandleLine(ctx, line, r) ==
    LET seen == [ctx EXCEPT !.seenLines = Append(@, line)]
    IN  IF ~StartsWith(line, DataPrefix)
        THEN seen
        ELSE IF SliceFrom(line, 6) = DoneSentinel
        THEN seen
        ELSE HandlePayload(seen, SliceFrom(line, 6), r)

RECURSIVE HandleLines(_, _, _)
\* the for loop: it ends with the first line that throws
HandleLines(ctx, lines, r) ==
    IF lines = <<>> \/ ctx.thrown
    THEN ctx
    ELSE HandleLines(HandleLine(ctx, Head(lines), r), Tail(lines), r)

\* buffer = ''
CarryOverDropped(parts) == <<>>

\* buffer = lines.pop() || ''
CarryOver(parts) == Last(parts)

\* a finally block that only hides the typing indicator
FinallyStillStreaming(outcome) ==
    /\ isStreaming' = isStreaming
    /\ showTyping' = FALSE
    /\ hs' = [hs EXCEPT !.pc = "idle", !.outcome = outcome]

\* lines 192-195
Finally(outcome) ==
    /\ isStreaming' = FALSE
    /\ showTyping' = FALSE
    /\ hs' = [hs EXCEPT !.pc = "idle", !.outcome = outcome]

\* the catch block with the test of assistantAdded inverted
CatchBlockInverted(ctx, error, r) ==
    LET errorMsg == [id |-> MessageId(now, ctx.msgCounter + 1, r), role |-> "assistant",
                     content |-> FallbackText, timestamp |-> now]
    IN  /\ showTyping' = FALSE
        /\ messages' = IF ctx.assistantAdded
                       THEN Append(ctx.messages, errorMsg)
                       ELSE ctx.messages
        /\ msgCounter' = ctx.msgCounter + 1
        /\ addMessage(ChatId, errorMsg)
        /\ observed' = ctx.observed
        /\ seenLines' = ctx.seenLines
        /\ UNCHANGED hs2
        /\ hs' = [hs EXCEPT !.pc = "addingError", !.fullContent = ctx.fullContent,
                            !.assistantAdded = ctx.assistantAdded, !.error = error]
        /\ UNCHANGED <<isStreaming, body>>

\* lines 180-191, up to the await of addMessage; `error` is what was thrown
CatchBlock(ctx, error, r) ==
    LET errorMsg == [id |-> MessageId(now, ctx.msgCounter + 1, r), role |-> "assistant",
                     content |-> FallbackText, timestamp |-> now]
    IN  /\ showTyping' = FALSE
        /\ messages' = IF ~ctx.assistantAdded
                       THEN Append(ctx.messages, errorMsg)
                       ELSE ctx.messages
        /\ msgCounter' = ctx.msgCounter + 1
        /\ addMessage(ChatId, errorMsg)
        /\ observed' = ctx.observed
        /\ seenLines' = ctx.seenLines
        /\ UNCHANGED hs2
        /\ hs' = [hs EXCEPT !.pc = "addingError", !.fullContent = ctx.fullContent,
                            !.assistantAdded = ctx.assistantAdded, !.error = error]
        /\ UNCHANGED <<isStreaming, body>>

\* lines 71-88: handleSend up to `await addMessage(id, userMessage)`
HandleSendStart(input, r) ==
    /\ hs.pc = "idle"
    /\ Trim(input) # <<>>
    /\ ~isStreaming
    /\ msgCounter < MaxMsgs
    /\ LET userMessage == NewMessage("user", Str(Trim(input)), r)
       IN  /\ messages' = Append(messages, userMessage)
           /\ msgCounter' = msgCounter + 1
           /\ addMessage(ChatId, userMessage)
           /\ hs' = [IdleSend EXCEPT !.pc = "addingUser", !.text = Trim(input),
                                     !.currentMessages = messages,
                                     !.newMessages = Append(messages, userMessage)]
    /\ observed' = <<>>
    /\ seenLines' = <<>>
    /\ UNCHANGED hs2
    /\ body' = NoBody
    /\ UNCHANGED <<isStreaming, showTyping>>

\* lines 71-88, run again while the first invocation awaits addMessage and
\* isStreaming is still false; `messages` is the list of the render the
\* handler was made in: the one the first invocation saw, or the one it set
HandleSendAgain(input, r) ==
    /\ hs.pc = "addingUser"
    /\ hs2.pc = "idle"
    /\ Trim(input) # <<>>
    /\ ~isStreaming
    /\ msgCounter <= MaxMsgs
    /\ \E seen \in {hs.currentMessages, messages} :
          LET userMessage == NewMessage("user", Str(Trim(input)), r)
          IN  /\ messages' = Append(seen, userMessage)
              /\ msgCounter' = msgCounter + 1
              /\ addMessage(ChatId, userMessage)
              /\ hs2' = [IdleSend EXCEPT !.pc = "addingUser", !.text = Trim(input),
                                         !.currentMessages = seen,
                                         !.newMessages = Append(seen, userMessage)]
    /\ UNCHANGED <<isStreaming, showTyping, hs, body, observed, seenLines>>

\* lines 90-107 of that invocation: its request is sent
HandleSendFetchAgain ==
    /\ hs2.pc = "addingUser"
    /\ isStreaming' = TRUE
    /\ showTyping' = TRUE
    /\ hs2' = [hs2 EXCEPT !.pc = "fetching"]
    /\ UNCHANGED <<storeVars, messages, hs, body, observed, seenLines>>

\* lines 90-107: up to `await fetch(...)`
HandleSendFetch ==
    /\ hs.pc = "addingUser"
    /\ isStreaming' = TRUE
    /\ showTyping' = TRUE
    /\ hs' = [hs EXCEPT !.pc = "fetching", !.fullContent = "", !.assistantAdded = FALSE]
    /\ UNCHANGED <<storeVars, messages, body, observed, seenLines, hs2>>

\* fetch rejects, or resolves with a response that is not ok or has no body
FetchFail(why, r) ==
    /\ hs.pc = "fetching"
    /\ why \in {"network", "notOk", "noBody"}
    /\ CatchBlock(Context, why, r)

\* fetch resolves with a readable body: lines 109-118
FetchOk(text) ==
    /\ hs.pc = "fetching"
    /\ body' = [text |-> text, pos |-> 0]
    /\ hs' = [hs EXCEPT !.pc = "reading", !.buffer = <<>>]
    /\ UNCHANGED <<storeVars, messages, isStreaming, showTyping, observed, seenLines, hs2>>

\* reader.read() resolves with the next k characters: lines 119-164
ReadChunk(k, r) ==
    /\ hs.pc = "reading"
    /\ k \in 1..(Len(body.text) - body.pos)
    /\ LET chunk == SubSeq(body.text, body.pos + 1, body.pos + k)
           parts == Split(hs.buffer \o chunk)
           ctx == HandleLines(Context, Popped(parts), r)
       IN  IF ctx.thrown
           THEN /\ CatchBlock(ctx, "frame", r)
           ELSE /\ messages' = ctx.messages
                /\ showTyping' = ctx.showTyping
                /\ msgCounter' = ctx.msgCounter
                /\ observed' = ctx.observed
                /\ seenLines' = ctx.seenLines
                /\ UNCHANGED hs2
                /\ hs' = [hs EXCEPT !.fullContent = ctx.fullContent,
                                    !.assistantAdded = ctx.assistantAdded,
                                    !.buffer = CarryOver(parts)]
                /\ body' = [body EXCEPT !.pos = @ + k]
                /\ UNCHANGED <<providerVars, isStreaming>>

\* reader.read() rejects
ReadFail(r) ==
    /\ hs.pc = "reading"
    /\ CatchBlock(Context, "read", r)

\* completion without the test of fullContent
ReadDoneAlways(r) ==
    /\ hs.pc = "reading"
    /\ body.pos = Len(body.text)
    /\ msgCounter' = msgCounter + 1
    /\ addMessage(ChatId, NewMessage("assistant", hs.fullContent, r))
    /\ hs' = [hs EXCEPT !.pc = "addingFinal"]
    /\ UNCHANGED <<isStreaming, showTyping>>
    /\ UNCHANGED <<messages, body, observed, seenLines, hs2>>

\* completion that first handles the carry-over as one more line
ReadDoneFlushing(r) ==
    /\ hs.pc = "reading"
    /\ body.pos = Len(body.text)
    /\ LET ctx == IF hs.buffer = <<>> THEN Context ELSE HandleLine(Context, hs.buffer, r)
       IN  /\ messages' = ctx.messages
           /\ observed' = ctx.observed
           /\ seenLines' = ctx.seenLines
           /\ UNCHANGED hs2
           /\ IF ctx.fullContent # ""
              THEN /\ msgCounter' = ctx.msgCounter + 1
                   /\ addMessage(ChatId, [id |-> MessageId(now, ctx.msgCounter + 1, r),
                                          role |-> "assistant",
                                          content |-> ctx.fullContent,
                                          timestamp |-> now])
                   /\ hs' = [hs EXCEPT !.pc = "addingFinal",
                                       !.fullContent = ctx.fullContent,
                                       !.assistantAdded = ctx.assistantAdded]
                   /\ showTyping' = ctx.showTyping
                   /\ UNCHANGED isStreaming
              ELSE /\ Finally("completed")
                   /\ UNCHANGED storeVars
    /\ UNCHANGED body

\* reader.read() resolves with done: lines 119 and 166-173
ReadDone(r) ==
    /\ hs.pc = "reading"
    /\ body.pos = Len(body.text)
    /\ IF hs.fullContent # ""
       THEN /\ msgCounter' = msgCounter + 1
            /\ addMessage(ChatId, NewMessage("assistant", hs.fullContent, r))
            /\ hs' = [hs EXCEPT !.pc = "addingFinal"]
            /\ UNCHANGED <<isStreaming, showTyping>>
       ELSE /\ Finally("completed")
            /\ UNCHANGED storeVars
    /\ UNCHANGED <<messages, body, observed, seenLines, hs2>>

\* after `await addMessage(id, assistantFinal)`, the title set whatever the
\* view held before the send
AfterFinalAddAlways ==
    /\ hs.pc = "addingFinal"
    /\ updateConversationTitle(ChatId, TitleOf(hs.text))
    /\ hs' = [hs EXCEPT !.pc = "renaming"]
    /\ UNCHANGED <<isStreaming, showTyping>>
    /\ UNCHANGED <<messages, body, observed, seenLines, hs2>>

\* lines 175-178, after `await addMessage(id, assistantFinal)`
AfterFinalAdd ==
    /\ hs.pc = "addingFinal"
    /\ IF Len(hs.currentMessages) = 0
       THEN /\ updateConversationTitle(ChatId, TitleOf(hs.text))
            /\ hs' = [hs EXCEPT !.pc = "renaming"]
            /\ UNCHANGED <<isStreaming, showTyping>>
       ELSE /\ Finally("completed")
            /\ UNCHANGED storeVars
    /\ UNCHANGED <<messages, body, observed, seenLines, hs2>>

\* after `await updateConversationTitle(id, title)`
AfterRename ==
    /\ hs.pc = "renaming"
    /\ Finally("completed")
    /\ UNCHANGED <<storeVars, messages, body, observed, seenLines, hs2>>

\* after `await addMessage(id, errorMsg)`
AfterErrorAdd ==
    /\ hs.pc = "addingError"
    /\ Finally("failed")
    /\ UNCHANGED <<storeVars, messages, body, observed, seenLines, hs2>>

\* ------------------------------------------------------------- specifications
\* ------------------------------------------------------------- accounts
\* what the user types into the username field
NameAlice == <<"A", "l", "i", "c", "e">>

NameAliceSpaced == <<" ", " ", "a", "l", "i", "c", "e", " ">>

NameBob == <<"b", "o", "b">>

NameShort == <<" ", "A", "l">>

Usernames == {NameAlice, NameAliceSpaced, NameBob, NameShort, <<" ">>}

Passwords == {"pass1", "1234", "abc", ""}

\* String.prototype.toLowerCase on one character
LowerChar(c) ==
    CASE c = "A" -> "a"
      [] c = "B" -> "b"
      [] OTHER -> c

ToLowerCase(cs) == [i \in DOMAIN cs |-> LowerChar(cs[i])]

\* username.trim() without the toLowerCase()
TrimmedOnly(username) == Trim(username)

\* username.trim().toLowerCase()
Trimmed(username) == ToLowerCase(Trim(username))

ErrBoth == "Please enter both username and password"

ErrNotFound == "Account not found. Please sign up first."

ErrIncorrect == "Incorrect password"

ErrShortName == "Username must be at least 3 characters"

ErrShortPassword == "Password must be at least 4 characters"

ErrExists == "Username already exists"

ErrFallback == "Something went wrong"

ErrThrown == "Something went wrong. Please try again."

NoAuthUser == [id |-> <<>>, username |-> ""]

NoCall == [call |-> "none", username |-> <<>>, password |-> ""]

NoResult == [call |-> "none", kind |-> "none", success |-> FALSE, error |-> ""]

Failure(call, error) ==
    [call |-> call, kind |-> "returned", success |-> FALSE, error |-> error]

Success(call) == [call |-> call, kind |-> "returned", success |-> TRUE, error |-> ""]

Rejected(call) == [call |-> call, kind |-> "rejected", success |-> FALSE, error |-> ""]

\* JSON.stringify / JSON.parse of the directory and of a user: the text holds
\* one member per entry
StringifyUsers(users) ==
    [kind |-> "text",
     json |-> {<<n, users[n].password, users[n].id>> : n \in DOMAIN users}]

ParseUsers(item) ==
    LET names == {m[1] : m \in item.json}
    IN  [n \in names |->
            LET m == CHOOSE e \in item.json : e[1] = n
            IN  [password |-> m[2], id |-> m[3]]]

StringifyUser(u) == [kind |-> "text", json |-> <<u.id, u.username>>]

NoUsers == [n \in {} |-> [password |-> "", id |-> <<>>]]

\* getUsers(): the stored directory, {} when there is none or the read fails
GetUsers(readOk) ==
    IF readOk /\ directory.kind = "text" THEN ParseUsers(directory) ELSE NoUsers

\* setError(result.error || 'Something went wrong') and the catch of handleSubmit
ShownError(result) ==
    IF result.kind = "rejected"
    THEN ErrThrown
    ELSE IF result.success
    THEN ""
    ELSE IF result.error = "" THEN ErrFallback ELSE result.error

\* handleSubmit up to its await: setError(''), setLoading(true), the call
HandleSubmit(call, username, password) ==
    /\ authCall = NoCall
    /\ authCall' = [call |-> call, username |-> username, password |-> password]
    /\ authResult' = NoResult
    /\ screenError' = ""
    /\ UNCHANGED <<directory, session, authUser>>

\* handleSubmit after its await: the result reaches the screen
Submitted(result) ==
    /\ authResult' = result
    /\ screenError' = ShownError(result)
    /\ authCall' = NoCall

\* login that throws on a wrong password instead of returning
LoginThrowing(username, password, readOk, writeOk) ==
    LET trimmed == Str(Trimmed(username))
        users == GetUsers(readOk)
    IN  /\ IF trimmed = "" \/ password = ""
           THEN Submitted(Failure("login", ErrBoth)) /\ UNCHANGED <<session, authUser>>
           ELSE IF trimmed \notin DOMAIN users
           THEN Submitted(Failure("login", ErrNotFound)) /\ UNCHANGED <<session, authUser>>
           ELSE IF users[trimmed].password # password
           THEN Submitted(Rejected("login")) /\ UNCHANGED <<session, authUser>>
           ELSE LET loggedInUser == [id |-> users[trimmed].id, username |-> trimmed]
                IN  IF writeOk
                    THEN /\ session' = StringifyUser(loggedInUser)
                         /\ authUser' = loggedInUser
                         /\ Submitted(Success("login"))
                    ELSE /\ Submitted(Rejected("login"))
                         /\ UNCHANGED <<session, authUser>>
        /\ UNCHANGED directory

\* login(username, password), called by handleSubmit
Login(username, password, readOk, writeOk) ==
    LET trimmed == Str(Trimmed(username))
        users == GetUsers(readOk)
    IN  /\ IF trimmed = "" \/ password = ""
           THEN Submitted(Failure("login", ErrBoth)) /\ UNCHANGED <<session, authUser>>
           ELSE IF trimmed \notin DOMAIN users
           THEN Submitted(Failure("login", ErrNotFound)) /\ UNCHANGED <<session, authUser>>
           ELSE IF users[trimmed].password # password
           THEN Submitted(Failure("login", ErrIncorrect)) /\ UNCHANGED <<session, authUser>>
           ELSE LET loggedInUser == [id |-> users[trimmed].id, username |-> trimmed]
                IN  IF writeOk
                    THEN /\ session' = StringifyUser(loggedInUser)
                         /\ authUser' = loggedInUser
                         /\ Submitted(Success("login"))
                    ELSE /\ Submitted(Rejected("login"))
                         /\ UNCHANGED <<session, authUser>>
        /\ UNCHANGED directory

\* the entry signup adds: users[trimmed] = { password, id }
WithUser(users, trimmed, password, id) ==
    [n \in DOMAIN users \cup {trimmed} |->
        IF n = trimmed THEN [password |-> password, id |-> id] ELSE users[n]]

\* signup whose duplicate test is missing
SignupOverwriting(username, password, r, readOk, writeUsersOk, writeSessionOk) ==
    LET trimmed == Str(Trimmed(username))
        users == GetUsers(readOk)
        id == ConversationId(now, r)
        newUser == [id |-> id, username |-> trimmed]
    IN  IF trimmed = "" \/ password = ""
        THEN Submitted(Failure("signup", ErrBoth))
             /\ UNCHANGED <<directory, session, authUser>>
        ELSE IF Len(Trimmed(username)) < 3
        THEN Submitted(Failure("signup", ErrShortName))
             /\ UNCHANGED <<directory, session, authUser>>
        ELSE IF Len(password) < 4
        THEN Submitted(Failure("signup", ErrShortPassword))
             /\ UNCHANGED <<directory, session, authUser>>
        ELSE IF ~writeUsersOk
        THEN Submitted(Rejected("signup"))
             /\ UNCHANGED <<directory, session, authUser>>
        ELSE /\ directory' = StringifyUsers(WithUser(users, trimmed, password, id))
             /\ IF writeSessionOk
                THEN /\ session' = StringifyUser(newUser)
                     /\ authUser' = newUser
                     /\ Submitted(Success("signup"))
                ELSE /\ Submitted(Rejected("signup"))
                     /\ UNCHANGED <<session, authUser>>

\* signup(username, password), called by handleSubmit
Signup(username, password, r, readOk, writeUsersOk, writeSessionOk) ==
    LET trimmed == Str(Trimmed(username))
        users == GetUsers(readOk)
        id == ConversationId(now, r)
        newUser == [id |-> id, username |-> trimmed]
    IN  IF trimmed = "" \/ password = ""
        THEN Submitted(Failure("signup", ErrBoth))
             /\ UNCHANGED <<directory, session, authUser>>
        ELSE IF Len(Trimmed(username)) < 3
        THEN Submitted(Failure("signup", ErrShortName))
             /\ UNCHANGED <<directory, session, authUser>>
        ELSE IF Len(password) < 4
        THEN Submitted(Failure("signup", ErrShortPassword))
             /\ UNCHANGED <<directory, session, authUser>>
        ELSE IF trimmed \in DOMAIN users
        THEN Submitted(Failure("signup", ErrExists))
             /\ UNCHANGED <<directory, session, authUser>>
        ELSE IF ~writeUsersOk
        THEN Submitted(Rejected("signup"))
             /\ UNCHANGED <<directory, session, authUser>>
        ELSE /\ directory' = StringifyUsers(WithUser(users, trimmed, password, id))
             /\ IF writeSessionOk
                THEN /\ session' = StringifyUser(newUser)
                     /\ authUser' = newUser
                     /\ Submitted(Success("signup"))
                ELSE /\ Submitted(Rejected("signup"))
                     /\ UNCHANGED <<session, authUser>>

\* logout(): removeItem resolves, then setUser(null)
Logout ==
    /\ authCall = NoCall
    /\ session' = Absent
    /\ authUser' = NoAuthUser
    /\ UNCHANGED <<directory, authCall, authResult, screenError>>

\* a fresh install after AuthProvider mounted: no directory, nobody logged in
AuthIdle ==
    /\ directory = Absent
    /\ session = Absent
    /\ authUser = NoAuthUser
    /\ authCall = NoCall
    /\ authResult = NoResult
    /\ screenError = ""

ScreenIdle ==
    /\ messages = <<>>
    /\ isStreaming = FALSE
    /\ showTyping = FALSE
    /\ hs = IdleSend
    /\ hs2 = IdleSend
    /\ body = NoBody
    /\ observed = <<>>
    /\ seenLines = <<>>

ProviderIdle ==
    /\ isLoading = FALSE
    /\ saveTimerRef = NoTimer
    /\ timers = {}
    /\ loads = <<>>
    /\ writes = <<>>
    /\ flush = "none"
    /\ now = 1
    /\ msgCounter = 0

StoresOfEarlierSessions ==
    {f \in [Keys -> UNION {SeedItems(u) : u \in Users}] :
        \A u \in Users : f[StorageKey(u)] \in SeedItems(u)}

\* what loadConversations leaves in memory for a stored item
Loaded(item) == IF item.kind = "text" THEN ParseStored(item) ELSE <<>>

\* User A is logged in and A's conversations are loaded
InitLoaded ==
    /\ user = "A"
    /\ storageKeyRef = StorageKey("A")
    /\ store \in StoresOfEarlierSessions
    /\ store[StorageKey("B")] = Absent
    /\ conversations = Loaded(store[StorageKey("A")])
    /\ conversationsRef = conversations
    /\ ProviderIdle

Init == InitLoaded /\ ScreenIdle /\ AuthIdle

\* calls made on the provider by its clients
\* the random suffix differs with the length of the list, as two draws of
\* Math.random() differ
Create ==
    /\ Len(conversations) < MaxConvs
    /\ createConversation("", 1 + Len(conversations))

\* a conversation is created, with or without a title, next to those present
CreateTitled ==
    /\ Len(conversations) <= MaxConvs
    /\ \E title \in Titles, r \in RandSet : createConversation(title, r)

Delete == \E id \in KnownIds \cup {UnknownId} : deleteConversation(id)

Add ==
    \E cid \in KnownIds \cup {UnknownId}, content \in Contents :
        ClientAddMessage(cid, "user", content, 1)

Replace ==
    \E cid \in KnownIds \cup {UnknownId}, content \in Replacements :
        updateLastMessage(cid, content)

Rename ==
    \E cid \in KnownIds \cup {UnknownId}, title \in Titles \ {""} :
        updateConversationTitle(cid, title)

Storage ==
    \/ \E h \in timers : TimerFire(h)
    \/ \E ok \in BOOLEAN : SetItemSettle(ok)

\* the conversation store under one identity: conversations come and go,
\* messages are added, the set is flushed
Next ==
    \/ Create /\ UNCHANGED <<sendVars, authVars>>
    \/ Delete /\ UNCHANGED <<sendVars, authVars>>
    \/ Add /\ UNCHANGED <<sendVars, authVars>>
    \/ persistNow /\ UNCHANGED <<sendVars, authVars>>
    \/ Storage /\ UNCHANGED <<sendVars, authVars>>

Spec == Init /\ [][Next]_vars

\* the conversation store under one identity: the messages and the title of
\* the loaded conversations are edited
NextEdit ==
    \/ Add /\ UNCHANGED <<sendVars, authVars>>
    \/ Replace /\ UNCHANGED <<sendVars, authVars>>
    \/ Rename /\ UNCHANGED <<sendVars, authVars>>
    \/ Storage /\ UNCHANGED <<sendVars, authVars>>
    \/ Tick /\ UNCHANGED <<sendVars, authVars>>

SpecEdit == Init /\ [][NextEdit]_vars

\* ChatProvider mounted under AuthProvider's initial user (null)
InitMounted ==
    /\ user = NoUser
    /\ storageKeyRef = NoKey
    /\ store \in StoresOfEarlierSessions
    /\ conversations = <<>>
    /\ conversationsRef = <<>>
    /\ ProviderIdle
    /\ ScreenIdle
    /\ AuthIdle

\* the identity changes and the loads it starts resolve
NextActivate ==
    \/ (\E u \in Users \cup {NoUser} : UserChanged(u)) /\ UNCHANGED <<sendVars, authVars>>
    \/ (\E i \in DOMAIN loads : LoadSettle(i, TRUE)) /\ UNCHANGED <<sendVars, authVars>>

SpecActivate == InitMounted /\ [][NextActivate]_vars

\* what an earlier session, or anything else writing the key, left under it
StoredItems(u) == SeedItems(u) \cup {Corrupt}

\* ChatProvider mounted under the initial user, over stores that may hold text
\* JSON.parse rejects
InitLoad ==
    /\ user = NoUser
    /\ storageKeyRef = NoKey
    /\ store \in [Keys -> UNION {StoredItems(u) : u \in Users}]
    /\ \A u \in Users : store[StorageKey(u)] \in StoredItems(u)
    /\ conversations = <<>>
    /\ conversationsRef = <<>>
    /\ ProviderIdle
    /\ ScreenIdle
    /\ AuthIdle

\* the identity changes; the reads its loads started resolve or reject
NextLoad ==
    \/ (\E u \in Users \cup {NoUser} : UserChanged(u)) /\ UNCHANGED <<sendVars, authVars>>
    \/ (\E i \in DOMAIN loads, ok \in BOOLEAN : LoadSettle(i, ok))
          /\ UNCHANGED <<sendVars, authVars>>

SpecLoad == InitLoad /\ [][NextLoad]_vars

\* messages the conversation of the chat screen held before the screen opened
EarlierMessages ==
    << [id |-> MessageId(0, 0, 1), role |-> "user", content |-> "hey", timestamp |-> 0],
       [id |-> MessageId(0, 0, 2), role |-> "assistant", content |-> "hello",
        timestamp |-> 0] >>

\* User A has opened the chat screen on a loaded conversation (lines 61-69)
InitSend ==
    /\ user = "A"
    /\ storageKeyRef = StorageKey("A")
    /\ \E history \in {<<>>, EarlierMessages} :
          /\ conversations = <<[SeedConversation("A") EXCEPT !.messages = history]>>
          /\ messages = history
    /\ conversationsRef = conversations
    /\ store = [k \in Keys |-> IF k = StorageKey("A") THEN Stringify(conversations)
                                                      ELSE Absent]
    /\ ProviderIdle
    /\ isStreaming = FALSE
    /\ showTyping = FALSE
    /\ hs = IdleSend
    /\ hs2 = IdleSend
    /\ body = NoBody
    /\ observed = <<>>
    /\ seenLines = <<>>
    /\ AuthIdle

\* one chat screen sending and streaming the replies
NextSend ==
    \/ (\E input \in Inputs, r \in RandSet : HandleSendStart(input, r)) /\ UNCHANGED authVars
    \/ (HandleSendFetch) /\ UNCHANGED authVars
    \/ (\E why \in {"network", "notOk", "noBody"}, r \in RandSet : FetchFail(why, r)) /\ UNCHANGED authVars
    \/ (\E text \in Bodies : FetchOk(text)) /\ UNCHANGED authVars
    \/ (\E k \in 1..MaxChunk, r \in RandSet : ReadChunk(k, r)) /\ UNCHANGED authVars
    \/ (\E r \in RandSet : ReadFail(r)) /\ UNCHANGED authVars
    \/ (\E r \in RandSet : ReadDone(r)) /\ UNCHANGED authVars
    \/ (AfterFinalAdd) /\ UNCHANGED authVars
    \/ (AfterRename) /\ UNCHANGED authVars
    \/ (AfterErrorAdd) /\ UNCHANGED authVars

SpecSend == InitSend /\ [][NextSend]_vars

\* the continuations of handleSend: an awaited provider call resumes, the
\* fetch settles, a read of the body settles
Resumes ==
    (HandleSendFetch \/ AfterFinalAdd \/ AfterRename \/ AfterErrorAdd) /\ UNCHANGED authVars

FetchSettles ==
    \/ (\E why \in {"network", "notOk", "noBody"}, r \in RandSet : FetchFail(why, r))
          /\ UNCHANGED authVars
    \/ (\E text \in Bodies : FetchOk(text)) /\ UNCHANGED authVars

\* the body arrives one character at a time
ReadSettles ==
    \/ (\E r \in RandSet : ReadChunk(1, r)) /\ UNCHANGED authVars
    \/ (\E r \in RandSet : ReadFail(r)) /\ UNCHANGED authVars
    \/ (\E r \in RandSet : ReadDone(r)) /\ UNCHANGED authVars

NextSendFair ==
    \/ (\E input \in Inputs, r \in RandSet : HandleSendStart(input, r)) /\ UNCHANGED authVars
    \/ Resumes
    \/ FetchSettles
    \/ ReadSettles

\* one chat screen sending, every promise it awaits settling in the end.
\* The last conjunct is WF_vars(ReadSettles) with ENABLED <<ReadSettles>>_vars
\* written as the state predicate it equals, hs.pc = "reading" (ReadFail can
\* be taken in every such state and in no other).
SpecSendFair ==
    /\ InitSend
    /\ [][NextSendFair]_vars
    /\ WF_vars(Resumes)
    /\ WF_vars(FetchSettles)
    /\ ([]<>(hs.pc # "reading") \/ []<><<ReadSettles>>_vars)

\* one chat screen whose handleSend is invoked a second time while the first
\* invocation awaits addMessage; the requests fail or stay unanswered
NextResend ==
    \/ (\E input \in Inputs, r \in RandSet : HandleSendStart(input, r)) /\ UNCHANGED authVars
    \/ (\E input \in Inputs, r \in RandSet : HandleSendAgain(input, r)) /\ UNCHANGED authVars
    \/ (HandleSendFetch) /\ UNCHANGED authVars
    \/ (HandleSendFetchAgain) /\ UNCHANGED authVars
    \/ (\E why \in {"network", "notOk", "noBody"}, r \in RandSet : FetchFail(why, r)) /\ UNCHANGED authVars
    \/ (AfterErrorAdd) /\ UNCHANGED authVars

SpecResend == InitSend /\ [][NextResend]_vars

\* bursts of edits under one identity, up to the writes their timers issue
NextBurst ==
    \/ Create /\ UNCHANGED <<sendVars, authVars>>
    \/ Delete /\ UNCHANGED <<sendVars, authVars>>
    \/ Add /\ UNCHANGED <<sendVars, authVars>>
    \/ Rename /\ UNCHANGED <<sendVars, authVars>>
    \/ (\E h \in timers : TimerFire(h)) /\ UNCHANGED <<sendVars, authVars>>

SpecBurst == Init /\ [][NextBurst]_vars

\* edits, changes of identity and the firing of the debounce timer, up to the
\* reads and writes they issue
NextSwitch ==
    \/ Create /\ UNCHANGED <<sendVars, authVars>>
    \/ Add /\ UNCHANGED <<sendVars, authVars>>
    \/ (\E u \in Users \cup {NoUser} : UserChanged(u)) /\ UNCHANGED <<sendVars, authVars>>
    \/ (\E h \in timers : TimerFire(h)) /\ UNCHANGED <<sendVars, authVars>>

SpecSwitch == Init /\ [][NextSwitch]_vars

\* edits under one identity whose writes succeed: a pending timer fires when
\* its 500 ms have passed, and AsyncStorage settles every setItem it was given
TimerFires == (\E h \in timers : TimerFire(h)) /\ UNCHANGED <<sendVars, authVars>>

WriteSucceeds == SetItemSettle(TRUE) /\ UNCHANGED <<sendVars, authVars>>

NextPersist ==
    \/ Create /\ UNCHANGED <<sendVars, authVars>>
    \/ Delete /\ UNCHANGED <<sendVars, authVars>>
    \/ Add /\ UNCHANGED <<sendVars, authVars>>
    \/ TimerFires
    \/ WriteSucceeds

SpecPersist ==
    /\ Init
    /\ [][NextPersist]_vars
    /\ WF_vars(TimerFires)
    /\ WF_vars(WriteSucceeds)

\* User A is logged in with two stored conversations loaded, one of them with
\* messages
InitTwo ==
    /\ user = "A"
    /\ storageKeyRef = StorageKey("A")
    /\ conversations =
          << [SeedConversation("A") EXCEPT !.messages = EarlierMessages],
             [SeedConversation("A") EXCEPT !.id = ConversationId(0, 3)] >>
    /\ conversationsRef = conversations
    /\ store = [k \in Keys |-> IF k = StorageKey("A") THEN Stringify(conversations)
                                                      ELSE Absent]
    /\ ProviderIdle
    /\ ScreenIdle
    /\ AuthIdle

\* the calls that change or remove loaded conversations, as time passes
NextAppend ==
    \/ Add /\ UNCHANGED <<sendVars, authVars>>
    \/ Replace /\ UNCHANGED <<sendVars, authVars>>
    \/ Rename /\ UNCHANGED <<sendVars, authVars>>
    \/ Delete /\ UNCHANGED <<sendVars, authVars>>
    \/ Tick /\ UNCHANGED <<sendVars, authVars>>

SpecAppend == InitTwo /\ [][NextAppend]_vars

\* what AsyncStorage does during one call: all well, or one operation fails
LoginFaults == {<<TRUE, TRUE>>, <<FALSE, TRUE>>, <<TRUE, FALSE>>}

SignupFaults ==
    {<<TRUE, TRUE, TRUE>>, <<FALSE, TRUE, TRUE>>, <<TRUE, FALSE, TRUE>>,
     <<TRUE, TRUE, FALSE>>}

\* the auth screen: signups, logins and logouts, one after the other
NextAuth ==
    \/ (\E call \in {"login", "signup"}, username \in Usernames,
            password \in Passwords : HandleSubmit(call, username, password))
       /\ UNCHANGED <<storeVars, sendVars>>
    \/ (/\ authCall.call = "login"
        /\ \E f \in LoginFaults :
              Login(authCall.username, authCall.password, f[1], f[2]))
       /\ UNCHANGED <<storeVars, sendVars>>
    \/ (/\ authCall.call = "signup"
        /\ \E r \in RandSet, f \in SignupFaults :
              Signup(authCall.username, authCall.password, r, f[1], f[2], f[3]))
       /\ UNCHANGED <<storeVars, sendVars>>
    \/ Logout /\ UNCHANGED <<storeVars, sendVars>>

SpecAuth == InitMounted /\ [][NextAuth]_vars

\* conversations are created and deleted and messages added, up to the
\* arming of the debounce timer
NextLifecycle ==
    \/ CreateTitled /\ UNCHANGED <<sendVars, authVars>>
    \/ Delete /\ UNCHANGED <<sendVars, authVars>>
    \/ Add /\ UNCHANGED <<sendVars, authVars>>

SpecLifecycle == Init /\ [][NextLifecycle]_vars

\* ------------------------------------------------------------- claims
BodyHiHiThere == Terminated(<<LineHi, LineHiThere, LineDone>>)

BodyMalformedThenHi == Terminated(<<LineMalformed, LineHi, LineDone>>)

\* the send has returned
SendEnded == hs.pc = "idle" /\ hs.outcome # "none"

\* the send is in, or has left, its catch block
SendFailed == hs.pc \in {"addingError", "idle"} /\ hs.error # "none"

\* the send has left its read loop by `done`
SendCompleted ==
    \/ hs.pc \in {"addingFinal", "renaming"}
    \/ hs.pc = "idle" /\ hs.outcome = "completed"

\* the messages the conversation store holds after the user message of this send
AppendedAfterUser ==
    LET ms == GetConversation(ChatId).messages
        at == CHOOSE i \in DOMAIN ms : ms[i] = Last(hs.newMessages)
    IN  SubSeq(ms, at + 1, Len(ms))

AllLines(text) == Popped(Split(text))

\* the line makes the loop throw something that is no SyntaxError
Throwing(line) ==
    /\ StartsWith(line, DataPrefix)
    /\ SliceFrom(line, 6) # DoneSentinel
    /\ LET parsed == ParseJSON(SliceFrom(line, 6))
       IN  \/ parsed.kind = "null"
           \/ parsed.kind = "object" /\ parsed.key = "error" /\ parsed.value # ""

\* the content the line carries, "" when it carries none
DeltaOf(line) ==
    IF StartsWith(line, DataPrefix) /\ SliceFrom(line, 6) # DoneSentinel
       /\ ParseJSON(SliceFrom(line, 6)).kind = "object"
       /\ ParseJSON(SliceFrom(line, 6)).key = "content"
    THEN ParseJSON(SliceFrom(line, 6)).value
    ELSE ""

RECURSIVE DeltasOf(_)
DeltasOf(lines) ==
    IF lines = <<>>
    THEN <<>>
    ELSE (IF DeltaOf(Head(lines)) = "" THEN <<>> ELSE <<DeltaOf(Head(lines))>>)
         \o DeltasOf(Tail(lines))

RECURSIVE Joined(_)
Joined(strs) == IF strs = <<>> THEN "" ELSE Head(strs) \o Joined(Tail(strs))

\* the i-th element is the first i deltas, concatenated
RunningTexts(deltas) == [i \in DOMAIN deltas |-> Joined(SubSeq(deltas, 1, i))]

RECURSIVE UpToThrow(_)
\* the lines up to and including the first that throws
UpToThrow(lines) ==
    IF lines = <<>>
    THEN <<>>
    ELSE IF Throwing(Head(lines))
    THEN <<Head(lines)>>
    ELSE <<Head(lines)>> \o UpToThrow(Tail(lines))

\* C1 (as claimed): once every load has resolved, the in-memory set is the
\* persisted set of the identity requested last, whatever the order in which
\* the loads resolved.
C1_LatestIdentityWins ==
    (user # NoUser /\ loads = <<>>) =>
        conversationsRef = Loaded(store[StorageKey(user)])

C3_ChunkingIndependent ==
    /\ hs.pc = "reading" =>
          /\ seenLines = AllLines(SubSeq(body.text, 1, body.pos))
          /\ hs.buffer = Last(Split(SubSeq(body.text, 1, body.pos)))
    /\ SendCompleted =>
          /\ seenLines = AllLines(body.text)
          /\ observed = RunningTexts(DeltasOf(AllLines(body.text)))
          /\ (hs.pc = "idle" /\ observed # <<>>) =>
                Last(AppendedAfterUser).content = Joined(DeltasOf(AllLines(body.text)))
    /\ (SendFailed /\ hs.error = "frame") =>
          /\ seenLines = UpToThrow(AllLines(body.text))
          /\ observed = RunningTexts(DeltasOf(seenLines))

\* a chunk ended inside a line after earlier lines were processed
C3_Witness ==
    /\ hs.pc = "reading"
    /\ hs.buffer # <<>>
    /\ body.pos < Len(body.text)
    /\ Len(seenLines) >= 2
    /\ observed # <<>>

\* C4: a data line that is no JSON does not end the stream: the loop throws
\* only on a line that carries an error (or null), every content line seen
\* has been shown, and the body "{not json", "Hi", [DONE] completes with "Hi"
\* alone shown and no fallback message in the view or in the store.
C4_MalformedSkipped ==
    /\ (SendFailed /\ hs.error = "frame") => Throwing(Last(seenLines))
    /\ Len(observed) = Len(DeltasOf(seenLines))
    /\ (body.text = BodyMalformedThenHi /\ hs.pc # "reading" /\ hs.error # "read") =>
          /\ SendCompleted
          /\ observed = <<"Hi">>
          /\ \A i \in DOMAIN messages : messages[i].content # FallbackText
          /\ \A i \in DOMAIN AppendedAfterUser :
                AppendedAfterUser[i].content # FallbackText

C4_Witness ==
    /\ SendEnded
    /\ hs.outcome = "completed"
    /\ body.text = BodyMalformedThenHi
    /\ observed = <<"Hi">>

C6_Step ==
    /\ \A r \in RandSet :
          createConversation("", r) =>
              /\ Find(conversationsRef', ConversationId(now, r))
                    = NewConversation(ConversationId(now, r), "", now)
              /\ Tail(conversationsRef') = conversationsRef
    /\ \A id \in KnownIds \cup {UnknownId} :
          deleteConversation(id) =>
              /\ Find(conversationsRef', id) = Undefined
              /\ \A other \in KnownIds \ {id} :
                    Find(conversationsRef', other) = Find(conversationsRef, other)
    /\ \A cid \in KnownIds \cup {UnknownId}, content \in Contents :
          ClientAddMessage(cid, "user", content, 1) =>
              /\ cid \in KnownIds =>
                    Find(conversationsRef', cid).messages
                        = Append(Find(conversationsRef, cid).messages,
                                 NewMessage("user", content, 1))
              /\ \A other \in KnownIds \ {cid} :
                    Find(conversationsRef', other) = Find(conversationsRef, other)
              /\ Len(conversationsRef') = Len(conversationsRef)

C7_ReplaceNeverWrites ==
    [][(\E cid \in KnownIds \cup {UnknownId}, content \in Replacements :
            updateLastMessage(cid, content))
        => UNCHANGED <<saveTimerRef, timers, writes, store>>]_vars

C7_Witness ==
    \E i \in DOMAIN conversationsRef :
        /\ conversationsRef[i].messages # <<>>
        /\ Last(conversationsRef[i].messages).content \in Replacements
        /\ timers = {}
        /\ writes = <<>>

\* C8: a send that fails before any content was received shows the fallback
\* message after the user message, and appends that one message to the store.
C8_FallbackOnEarlyFailure ==
    (SendFailed /\ ~hs.assistantAdded) =>
        /\ Last(messages).role = "assistant"
        /\ Last(messages).content = FallbackText
        /\ messages = Append(hs.newMessages, Last(messages))
        /\ AppendedAfterUser = <<Last(messages)>>

C8_Witness ==
    /\ SendEnded
    /\ hs.error = "frame"
    /\ ~hs.assistantAdded
    /\ Last(messages).content = FallbackText

\* C9 (as claimed): a send that fails after content was received appends no
\* fallback message to the store, and the content received stays the final
\* state of the assistant message.
C9_NoFallbackAfterContent ==
    (SendFailed /\ hs.assistantAdded) =>
        /\ \A i \in DOMAIN AppendedAfterUser :
              AppendedAfterUser[i].content # FallbackText
        /\ Last(messages).content = hs.fullContent

\* C10: while the reply streams nothing is appended to the store; a send that
\* completes has appended one assistant message carrying the whole text when
\* content was received, and nothing when none was.
C10_OneAppendOnCompletion ==
    /\ hs.pc \in {"fetching", "reading"} => AppendedAfterUser = <<>>
    /\ SendCompleted =>
          IF hs.fullContent # ""
          THEN /\ Len(AppendedAfterUser) = 1
               /\ AppendedAfterUser[1].role = "assistant"
               /\ AppendedAfterUser[1].content = hs.fullContent
          ELSE AppendedAfterUser = <<>>

C10_Witness ==
    /\ SendEnded
    /\ hs.outcome = "completed"
    /\ hs.fullContent # ""
    /\ Len(AppendedAfterUser) = 1

\* a create, delete, addMessage or rename call
Mutation ==
    \/ Create
    \/ Delete
    \/ Add
    \/ Rename

\* C11: every mutating call leaves exactly one debounce timer pending and
\* issues no write itself, so a burst of calls made before the timer fires
\* ends with one timer; that timer's firing leaves none pending and issues
\* exactly one write, whose value is the in-memory set as it is at the firing.
C11_BurstCoalesces ==
    [][/\ Mutation => (Cardinality(timers') = 1 /\ writes' = writes)
       /\ (\E h \in timers : TimerFire(h)) =>
             /\ timers' = {}
             /\ Len(writes') = Len(writes) + 1
             /\ Last(writes').key = storageKeyRef
             /\ ParseStored(Last(writes').value) = conversationsRef
       ]_vars

\* the timer of a burst that renamed the seeded conversation and added a
\* message to it has fired: one write is in flight, carrying both edits
C11_Witness ==
    /\ timers = {}
    /\ Len(writes) = 1
    /\ writes[1].by = "timer"
    /\ store[storageKeyRef] = Stringify(<<SeedConversation("A")>>)
    /\ \E i \in DOMAIN conversationsRef :
          /\ conversationsRef[i].title = "Trip"
          /\ conversationsRef[i].messages # <<>>
    /\ ParseStored(writes[1].value) = conversationsRef

\* C12: a store write that fails changes nothing in memory (the conversations
\* stay as the mutation left them) and rejects no promise: the persistNow
\* call that issued it resolves, and no call of the store is ever rejected.
C12_WriteFailureSwallowed ==
    /\ [](flush # "rejected")
    /\ [][SetItemSettle(FALSE) =>
             /\ UNCHANGED <<conversations, conversationsRef, store, timers>>
             /\ (flush = "pending" /\ Len(writes) = 1) => flush' = "logged"
         ]_vars

\* a persistNow after a create resolved although its write failed; the created
\* conversation is in memory and not in the store
C12_Witness ==
    /\ flush = "logged"
    /\ conversationsRef # <<>>
    /\ conversationsRef[1].createdAt = now
    /\ store[storageKeyRef] # Stringify(conversationsRef)

\* C13 (as claimed): while the only load pending is the one of the active
\* identity B, getConversation finds no conversation of the identity A that
\* was active before.
C13_SwitchDiscardsMemory ==
    (user = "B" /\ loads = <<[key |-> StorageKey("B")]>>) =>
        GetConversation(SeedConversation("A").id) = Undefined

\* C14: a change of identity leaves no debounce timer pending and issues no
\* write itself, so a write that was scheduled before the change is never
\* performed, under the old key or under the new one.
C14_SwitchCancelsTimer ==
    [][(\E u \in Users \cup {NoUser} : UserChanged(u)) =>
            /\ timers' = {}
            /\ writes' = writes
            /\ store' = store
      ]_vars

\* an edit made under A armed a timer, the identity changed to B, and the
\* edit has reached neither the store nor a write in flight
C14_Witness ==
    /\ user = "B"
    /\ loads = <<[key |-> StorageKey("B")]>>
    /\ saveTimerRef # NoTimer
    /\ timers = {}
    /\ writes = <<>>
    /\ conversationsRef # <<>>
    /\ Loaded(store[StorageKey("A")]) # conversationsRef
    /\ store[StorageKey("B")] = Absent

\* the directory as stored, {} when nothing is stored
StoredUsers(item) == IF item.kind = "text" THEN ParseUsers(item) ELSE NoUsers

C15_Step ==
    /\ \A r \in RandSet, f \in SignupFaults :
          (/\ authCall.call = "signup"
           /\ authCall.username \in {NameAlice, NameAliceSpaced}
           /\ Signup(authCall.username, authCall.password, r, f[1], f[2], f[3])
           /\ authResult'.success) =>
              /\ "alice" \in DOMAIN StoredUsers(directory')
              /\ StoredUsers(directory')["alice"]
                    = [password |-> authCall.password, id |-> ConversationId(now, r)]
              /\ authUser' = [id |-> ConversationId(now, r), username |-> "alice"]
    /\ (/\ authCall.call = "login"
        /\ authCall.username \in {NameAlice, NameAliceSpaced}
        /\ authCall.password # ""
        /\ "alice" \in DOMAIN StoredUsers(directory)
        /\ StoredUsers(directory)["alice"].password = authCall.password
        /\ Login(authCall.username, authCall.password, TRUE, TRUE)) =>
           /\ authResult' = Success("login")
           /\ authUser' = [id |-> StoredUsers(directory)["alice"].id,
                           username |-> "alice"]

\* C15: a signup as "Alice" or "  alice " that succeeds files the account
\* under "alice"; a login as "Alice" or "  alice " with the password filed
\* under "alice" succeeds and makes the current user the one with the id the
\* signup assigned.
C15_UsernamesNormalized == [][C15_Step]_vars

\* a login succeeded for alice while bob has an account too, and the current
\* user carries the id filed for alice
C15_Witness ==
    /\ authResult = Success("login")
    /\ authUser.username = "alice"
    /\ DOMAIN StoredUsers(directory) = {"alice", "bob"}
    /\ authUser.id = StoredUsers(directory)["alice"].id
    /\ authUser.id # StoredUsers(directory)["bob"].id

C16_Step ==
    \A r \in RandSet, f \in SignupFaults :
       (/\ authCall.call = "signup"
        /\ f[1]
        /\ Str(Trimmed(authCall.username)) \in DOMAIN StoredUsers(directory)
        /\ Signup(authCall.username, authCall.password, r, f[1], f[2], f[3])) =>
           /\ authResult'.kind = "returned"
           /\ ~authResult'.success
           /\ Len(authCall.password) >= 4 => authResult'.error = ErrExists
           /\ UNCHANGED <<directory, session, authUser>>

C17_Step ==
    /\ \A f \in LoginFaults :
          (/\ authCall.call = "login"
           /\ Login(authCall.username, authCall.password, f[1], f[2])) =>
              LET n == Str(Trimmed(authCall.username))
                  users == IF f[1] THEN StoredUsers(directory) ELSE NoUsers
                  expected ==
                      IF n = "" \/ authCall.password = "" THEN ErrBoth
                      ELSE IF n \notin DOMAIN users THEN ErrNotFound
                      ELSE IF users[n].password # authCall.password THEN ErrIncorrect
                      ELSE ""
              IN  /\ expected # "" =>
                        /\ authResult' = Failure("login", expected)
                        /\ screenError' = expected
                        /\ UNCHANGED <<directory, session, authUser>>
                  /\ authResult'.kind = "rejected" => ~f[2]
    /\ \A r \in RandSet, f \in SignupFaults :
          (/\ authCall.call = "signup"
           /\ Signup(authCall.username, authCall.password, r, f[1], f[2], f[3])) =>
              LET n == Str(Trimmed(authCall.username))
                  users == IF f[1] THEN StoredUsers(directory) ELSE NoUsers
                  expected ==
                      IF n = "" \/ authCall.password = "" THEN ErrBoth
                      ELSE IF Len(n) < 3 THEN ErrShortName
                      ELSE IF Len(authCall.password) < 4 THEN ErrShortPassword
                      ELSE IF n \in DOMAIN users THEN ErrExists
                      ELSE ""
              IN  /\ expected # "" =>
                        /\ authResult' = Failure("signup", expected)
                        /\ screenError' = expected
                        /\ UNCHANGED <<directory, session, authUser>>
                  /\ authResult'.kind = "rejected" => (~f[2] \/ ~f[3])

\* C17: every login or signup that meets a domain error (a field empty, a
\* name under 3 or a password under 4 characters, no such account, a wrong
\* password, a name taken) returns success false with the error's message,
\* which the screen shows; a call rejects only when a store write failed.
C17_DomainErrorsReturned == [][C17_Step]_vars

C17_Witness ==
    /\ authResult = Failure("login", ErrIncorrect)
    /\ screenError = ErrIncorrect
    /\ authUser = NoAuthUser

\* the messages this process gave an id to: those of the view and of the
\* store that were not loaded with the conversation
Generated ==
    LET shown == {messages[i] : i \in DOMAIN messages}
        kept == UNION {{c.messages[i] : i \in DOMAIN c.messages} :
                          c \in {conversationsRef[j] : j \in DOMAIN conversationsRef}}
        loaded == {EarlierMessages[i] : i \in DOMAIN EarlierMessages}
    IN  (shown \cup kept) \ loaded

\* C18: two different messages the process gave an id to never carry the same
\* id, also when they were made in the same millisecond with the same random
\* part: their ids differ in the counter, which counts the ids given so far.
C18_MessageIdsUnique ==
    /\ \A m1, m2 \in Generated : m1.id = m2.id => m1 = m2
    /\ \A m \in Generated : m.id[3] \in 1..msgCounter

\* the user message and the stored reply of one send, made in the same
\* millisecond with equal random parts
C18_Witness ==
    \E m1, m2 \in Generated :
        /\ m1.role = "user"
        /\ m2.role = "assistant"
        /\ m2.content # FallbackText
        /\ m1.id[2] = m2.id[2]
        /\ m1.id[4] = m2.id[4]
        /\ m1.id # m2.id
        /\ hs.pc = "idle"

C19_Step ==
    \A title \in Titles, r \in RandSet :
        createConversation(title, r) =>
            /\ conversationsRef' =
                  <<[id |-> ConversationId(now, r),
                     title |-> IF title = "" THEN "New Chat" ELSE title,
                     messages |-> <<>>, createdAt |-> now, updatedAt |-> now]>>
                  \o conversationsRef
            /\ conversations' = conversationsRef'
            /\ Cardinality(timers') = 1
            /\ saveTimerRef' \in timers'
            /\ writes' = writes
            /\ store' = store

\* C19: createConversation puts a conversation with no messages, the given
\* title or "New Chat", and the id it returns in front of the conversations
\* present, which stay as they were and in their order; it leaves one
\* debounce timer pending and writes nothing itself.
C19_CreatePrepends == [][C19_Step]_vars

\* a conversation was created in front of the one loaded from the store
C19_Witness ==
    /\ Len(conversationsRef) = 2
    /\ conversationsRef[1].createdAt = now
    /\ conversationsRef[1].title = "New Chat"
    /\ conversationsRef[1].messages = <<>>
    /\ conversationsRef[2].id = SeedConversation("A").id
    /\ conversationsRef[2].messages # <<>>
    /\ timers # {}

RECURSIVE Without(_, _)
\* the conversations of cs whose id is not `id`, in their order
Without(cs, id) ==
    IF cs = <<>>
    THEN <<>>
    ELSE IF Head(cs).id = id
    THEN Without(Tail(cs), id)
    ELSE <<Head(cs)>> \o Without(Tail(cs), id)

C20_Step ==
    \A id \in KnownIds \cup {UnknownId} :
        deleteConversation(id) =>
            /\ conversationsRef' = Without(conversationsRef, id)
            /\ conversations' = conversationsRef'
            /\ \A i \in DOMAIN conversationsRef' : conversationsRef'[i].id # id
            /\ id \notin KnownIds => conversationsRef' = conversationsRef

\* C20: deleteConversation(id) takes the conversation with that id out of
\* the in-memory set and leaves the others as they were and in their order;
\* with an id no conversation has, the set stays as it is.
C20_DeleteRemovesOne == [][C20_Step]_vars

\* the conversation loaded from the store was deleted from memory and a
\* conversation created in this session, with a message, is still there
C20_Witness ==
    /\ Len(conversationsRef) = 1
    /\ conversationsRef[1].createdAt = now
    /\ conversationsRef[1].messages # <<>>
    /\ store[storageKeyRef] = Stringify(<<SeedConversation("A")>>)

\* C21: addMessage with an id no conversation has leaves the in-memory set as
\* it is: the same conversations, with the same messages, titles and
\* updatedAt, in the published list and in the set getConversation reads.
C21_AddToUnknownKeepsSet ==
    [][\A content \in Contents :
          (UnknownId \notin KnownIds /\ ClientAddMessage(UnknownId, "user", content, 1)) =>
              /\ conversationsRef' = conversationsRef
              /\ conversations' = conversations
              /\ store' = store
      ]_vars

\* a message id was used up and a timer armed, and the conversation loaded
\* from the store is in memory exactly as loaded
C21_Witness ==
    /\ msgCounter = 1
    /\ timers # {}
    /\ conversationsRef = <<SeedConversation("A")>>
    /\ conversations = conversationsRef

\* C22: persistNow called while the debounce timer of a mutation is pending
\* cancels that timer and issues one write of the current set: after the call
\* no timer is pending, so the mutation is written once, by persistNow, and
\* never a second time by the timer.
C22_FlushCancelsTimer ==
    [][(saveTimerRef \in timers /\ persistNow) =>
          /\ timers' = {}
          /\ writes' = Append(writes, [key |-> storageKeyRef,
                                        value |-> Stringify(conversationsRef),
                                        by |-> "persistNow"])
      ]_vars

\* a mutation armed the timer, persistNow's write of the mutated set is the
\* only one in flight and no timer is left to fire
C22_Witness ==
    /\ saveTimerRef # NoTimer
    /\ timers = {}
    /\ Len(writes) = 1
    /\ writes[1].by = "persistNow"
    /\ writes[1].value = Stringify(conversationsRef)
    /\ writes[1].value # store[writes[1].key]
    /\ flush = "pending"

\* C23: persistNow called when no debounced write is pending changes nothing:
\* no in-memory state and no write to the persistent store.
C23_FlushWithoutPendingIsNoOp ==
    [][(timers = {} /\ persistNow) => UNCHANGED storeVars]_vars

\* C24: when a load finds no value under the key, or the read is rejected, or
\* the value cannot be parsed, the published list and the set getConversation
\* reads are empty and isLoading is false once the load has settled.
C24_FailedLoadEmptiesMemory ==
    [][\A i \in DOMAIN loads :
          (\/ LoadSettle(i, FALSE)
           \/ (LoadSettle(i, TRUE) /\ store[loads[i].key].kind \in {"absent", "corrupt"}))
          => /\ conversations' = <<>>
             /\ conversationsRef' = <<>>
             /\ ~isLoading'
      ]_vars

\* A's conversation was stored, B's item does not parse, user B's load has
\* settled and memory is empty
C24_Witness ==
    /\ user = "B"
    /\ store[StorageKey("A")] = Stringify(<<SeedConversation("A")>>)
    /\ store[StorageKey("B")] = Corrupt
    /\ loads = <<>>
    /\ conversations = <<>>
    /\ conversationsRef = <<>>
    /\ ~isLoading

\* C25 (as claimed): no value written under B's key holds a conversation that
\* was loaded from A's key, also when the write follows a change of identity
\* from A to B whose load has not resolved.
C25_WritesHoldOwnConversations ==
    \A i \in DOMAIN writes :
        writes[i].key = StorageKey("B") =>
            \A j \in DOMAIN writes[i].value.json :
                writes[i].value.json[j][1] # SeedConversation("A").id

\* C26 (as claimed): while the reply streams, the conversation store's
\* in-memory state carries the content received so far: once a delta has
\* arrived, the last message getConversation returns for the conversation is
\* the assistant message with that content.
C26_StoreFollowsStream ==
    (hs.pc = "reading" /\ hs.assistantAdded) =>
        LET ms == GetConversation(ChatId).messages
        IN  /\ Last(ms).role = "assistant"
            /\ Last(ms).content = hs.fullContent

\* the messages of the view other than the last
C27_Earlier(ms) == SubSeq(ms, 1, Len(ms) - 1)

\* C27: within one stream, the read that brings the first non-empty delta
\* turns the typing indicator off and adds exactly one assistant message to
\* the view; a read that brings later deltas changes only the content of that
\* message: its id, its timestamp and the number of messages stay.
C27_OneLiveMessage ==
    [][(hs.pc = "reading" /\ Len(observed') > Len(observed)) =>
          /\ ~showTyping'
          /\ Last(messages').role = "assistant"
          /\ Last(messages').content = Last(observed')
          /\ IF ~hs.assistantAdded
             THEN C27_Earlier(messages') = messages
             ELSE /\ Len(messages') = Len(messages)
                  /\ C27_Earlier(messages') = C27_Earlier(messages)
                  /\ Last(messages').id = Last(messages).id
                  /\ Last(messages').timestamp = Last(messages).timestamp
      ]_vars

\* two deltas have arrived in separate reads and the view holds one message
\* more than when the request was sent, with the typing indicator off
C27_Witness ==
    /\ hs.pc = "reading"
    /\ body.text = BodyHiHiThere
    /\ observed = <<"Hi", "HiHi there">>
    /\ Len(messages) = Len(hs.newMessages) + 1
    /\ Last(messages).content = "HiHi there"
    /\ ~showTyping

\* a body whose last line, a complete data record, has no newline after it
BodyUnterminated == Terminated(<<LineHi>>) \o LineHiThere

\* C28: when the stream ends, the text left in the carry-over buffer is
\* dropped: for a body whose last line is the record "Hi there" without a
\* newline, a send that completes has handled the line "Hi" only, has shown
\* "Hi" only and stores one assistant message with content "Hi".
C28_CarryOverDiscarded ==
    (SendCompleted /\ body.text = BodyUnterminated) =>
        /\ hs.buffer = LineHiThere
        /\ seenLines = <<LineHi>>
        /\ observed = <<"Hi">>
        /\ Last(messages).content = "Hi"
        /\ hs.pc = "idle" =>
              /\ Len(AppendedAfterUser) = 1
              /\ AppendedAfterUser[1].content = "Hi"

\* the send has returned with the unterminated record still in the buffer
C28_Witness ==
    /\ SendEnded
    /\ hs.outcome = "completed"
    /\ body.text = BodyUnterminated
    /\ hs.buffer = LineHiThere
    /\ Len(AppendedAfterUser) = 1

\* a body with an error frame between two content frames
BodyErrorBetween == Terminated(<<LineHi, LineError, LineHiThere>>)

\* C29: a frame that carries an error ends the stream as a failure: the error
\* line is the last line handled, whatever followed it in the same chunk or
\* in the body; the send is in its catch block or has returned as failed, so
\* no further chunk is read; the fallback message is what the store receives.
C29_ErrorFrameEndsStream ==
    (\E i \in DOMAIN seenLines : seenLines[i] = LineError) =>
        /\ Last(seenLines) = LineError
        /\ seenLines = UpToThrow(AllLines(body.text))
        /\ observed = RunningTexts(DeltasOf(seenLines))
        /\ hs.pc \in {"addingError", "idle"}
        /\ hs.error = "frame"
        /\ hs.pc = "idle" => hs.outcome = "failed"
        /\ Last(AppendedAfterUser).content = FallbackText

\* the send has failed on the error frame, the content frame after it unseen
C29_Witness ==
    /\ SendEnded
    /\ hs.outcome = "failed"
    /\ body.text = BodyErrorBetween
    /\ seenLines = <<LineHi, LineError>>
    /\ observed = <<"Hi">>

\* the title the conversation store holds for the conversation of the screen
C30_Title == GetConversation(ChatId).title

\* a step that changes the title is taken by a send that found the
\* conversation without messages, right after its reply, which has content,
\* was appended; the new title is the text that was sent
C30_Step ==
    C30_Title' # C30_Title =>
        /\ hs.pc = "addingFinal"
        /\ hs.currentMessages = <<>>
        /\ hs.fullContent # ""
        /\ GetConversation(ChatId).messages = <<Last(hs.newMessages)>> \o AppendedAfterUser
        /\ Len(AppendedAfterUser) = 1
        /\ AppendedAfterUser[1].content = hs.fullContent
        /\ C30_Title' = TitleOf(hs.text)

\* C30: the title is set from the text of the first user message exactly when
\* the first reply completes with content: a send that found the conversation
\* empty and completed with content returns with the title set to its text,
\* and no other step changes the title: not a send on a conversation that had
\* messages, not a send that failed, not one that completed without content.
C30_TitleFromFirstExchange ==
    /\ [](( SendEnded /\ hs.outcome = "completed" /\ hs.fullContent # ""
            /\ hs.currentMessages = <<>> ) => C30_Title = TitleOf(hs.text))
    /\ [][C30_Step]_vars

\* the first send on an empty conversation has completed and renamed it
C30_Witness ==
    /\ SendEnded
    /\ hs.outcome = "completed"
    /\ hs.currentMessages = <<>>
    /\ hs.fullContent = "HiHi there"
    /\ C30_Title = "hi"

\* C31: at most one debounce timer is pending at any time, and it is the one
\* whose handle saveTimerRef holds: every scheduleSave cancels the timer that
\* was pending before it starts a new one, and a change of identity cancels
\* it, so any number of mutations leaves at most one write scheduled.
C31_OneTimerPending ==
    /\ Cardinality(timers) <= 1
    /\ timers \subseteq {saveTimerRef}

\* a conversation was created and a message added to it, two mutations with
\* no firing between them, and one timer is pending
C31_Witness ==
    /\ Cardinality(timers) = 1
    /\ writes = <<>>
    /\ msgCounter = 1
    /\ Len(conversationsRef) = 1
    /\ conversationsRef[1].createdAt = now
    /\ Len(conversationsRef[1].messages) = 1

\* the value stored under the active key is the in-memory set, and nothing is
\* scheduled or in flight
C32_Persisted ==
    /\ timers = {}
    /\ writes = <<>>
    /\ store[storageKeyRef] = Stringify(conversationsRef)

C33_ButLast(ms) == SubSeq(ms, 1, Len(ms) - 1)

\* addMessage on a known conversation puts the message last in it, refreshes
\* its updatedAt and leaves the other conversations as they were
C33_AddAppends ==
    \A cid \in KnownIds, content \in Contents :
        ClientAddMessage(cid, "user", content, 1) =>
            /\ Len(conversationsRef') = Len(conversationsRef)
            /\ \A i \in DOMAIN conversationsRef :
                  LET c == conversationsRef[i]
                      d == conversationsRef'[i]
                  IN  IF c.id = cid
                      THEN /\ C33_ButLast(d.messages) = c.messages
                           /\ Last(d.messages) = NewMessage("user", content, 1)
                           /\ d.updatedAt = now
                           /\ [d EXCEPT !.messages = c.messages, !.updatedAt = c.updatedAt] = c
                      ELSE d = c

\* whatever the call, the messages a conversation had are still there, in
\* their places and unchanged, unless the call is updateLastMessage, which
\* changes the content of the last message and nothing else in the list
C33_MessagesKept ==
    \A i \in DOMAIN conversationsRef' :
        LET d == conversationsRef'[i]
            c == GetConversation(d.id)
        IN  \/ /\ Len(d.messages) >= Len(c.messages)
               /\ SubSeq(d.messages, 1, Len(c.messages)) = c.messages
            \/ /\ \E content \in Replacements : updateLastMessage(d.id, content)
               /\ Len(d.messages) = Len(c.messages)
               /\ C33_ButLast(d.messages) = C33_ButLast(c.messages)
               /\ [Last(d.messages) EXCEPT !.content = Last(c.messages).content]
                     = Last(c.messages)

\* C33: a conversation's message list is append-only: addMessage on a known
\* conversation places the new message last, refreshes updatedAt and leaves
\* every earlier message and every other conversation unchanged; only
\* updateLastMessage alters an existing message, and only the content of the
\* last one.
C33_AppendOnly == [][C33_AddAppends /\ C33_MessagesKept]_vars

\* a message was added after the two the first conversation had, the last
\* one's content was then replaced, and the second conversation is untouched
C33_Witness ==
    /\ Len(conversationsRef) = 2
    /\ Len(conversationsRef[1].messages) = 3
    /\ C33_ButLast(conversationsRef[1].messages) = EarlierMessages
    /\ Last(conversationsRef[1].messages).role = "user"
    /\ Last(conversationsRef[1].messages).content \in Replacements
    /\ conversationsRef[1].updatedAt > 0
    /\ conversationsRef[2].messages = <<>>
    /\ conversationsRef[2].updatedAt = 0

\* the user messages the store holds beyond those the conversation had when
\* the send in progress began
C34_UserMessagesOfSend ==
    LET ms == GetConversation(ChatId).messages
    IN  {i \in (Len(hs.currentMessages) + 1)..Len(ms) : ms[i].role = "user"}

\* C34 (as claimed): while a handleSend has not finished, one user message
\* has been appended for it and at most one request is open: an invocation
\* made in the meantime appends nothing and sends nothing.
C34_OneSendAtATime ==
    hs.pc # "idle" =>
        /\ Cardinality(C34_UserMessagesOfSend) = 1
        /\ ~(hs.pc = "fetching" /\ hs2.pc = "fetching")

\* C35: every handleSend that passed its guard comes to its end, whatever
\* the outcome, and a handleSend that has ended has left isStreaming and the
\* typing indicator false, so the guard of a later send is not held by it.
C35_StreamingStateEnds ==
    /\ [](hs.pc = "idle" => (~isStreaming /\ ~showTyping))
    /\ (hs.pc # "idle") ~> (SendEnded /\ ~isStreaming /\ ~showTyping)

\* a send that received content and then failed on an error frame has ended
\* with isStreaming and the typing indicator off
C35_Witness ==
    /\ SendEnded
    /\ hs.outcome = "failed"
    /\ hs.error = "frame"
    /\ hs.assistantAdded
    /\ ~isStreaming
    /\ ~showTyping

\* C36 (as claimed): a signup that succeeds adds one entry to the stored
\* directory and leaves every entry that was there unchanged, whether or not
\* the directory could be read; a signup that fails leaves the directory and
\* the stored session as they were.
C36_SignupKeepsDirectory ==
    [][(authCall.call = "signup" /\ authCall' = NoCall) =>
          LET old == StoredUsers(directory)
              new == StoredUsers(directory')
          IN  IF authResult'.kind = "returned" /\ authResult'.success
              THEN /\ DOMAIN old \subseteq DOMAIN new
                   /\ \A n \in DOMAIN old : new[n] = old[n]
                   /\ Cardinality(DOMAIN new) = Cardinality(DOMAIN old) + 1
              ELSE /\ directory' = directory
                   /\ session' = session
      ]_vars

====
